---- MODULE Spec2Model ----
(***************************************************************************)
(* Model of spacy-textdescriptives' readability component                  *)
(* (components/readability.py): the Readability pipeline component, the   *)
(* registration of the "readability" Doc extension, and the eight          *)
(* readability formulas computed by the extension's getter.                *)
(*                                                                         *)
(* Numbers.  Python floats are IEEE-754 binary64 values.  A float is       *)
(* [s |-> sign, m |-> mantissa, e |-> exponent] with value                 *)
(* (-1)^s * m * 2^e, where m is a natural number of exactly Precision bits *)
(* (2^52 <= m < 2^53), or zero, [s |-> 0, m |-> <<>>, e |-> 0].  Mantissas  *)
(* are wider than TLC's integers, so a natural number is the little-endian *)
(* sequence of its base-2^LimbBits digits, without leading zeros.  Every   *)
(* operation but ** computes the exact result and rounds it to the nearest *)
(* float, ties to even, as the hardware does; a float literal such as      *)
(* 206.835 is Dec(206835, 1000), the float nearest to the decimal.  x ** y *)
(* is the C library's pow, which is accurate to within one unit in the     *)
(* last place but not correctly rounded: an inexact result is either of    *)
(* the two floats around the exact one, and which of them depends on the   *)
(* library the interpreter was built with.  The variable libm holds that   *)
(* choice; it is fixed for a run of the program.  The values of the        *)
(* formulas are far from the overflow and subnormal ranges, which are not  *)
(* modelled, and the sign of zero, which no formula observes, is dropped.  *)
(* Python's true division raises ZeroDivisionError on a zero divisor (int  *)
(* or float); an outcome is a record [exc, val] whose exc names the        *)
(* exception raised, if any.                                               *)
(***************************************************************************)
EXTENDS Integers, Sequences, FiniteSets, TLC

VARIABLES
    extension,   \* Doc's extension registry entry for "readability"
    instances,   \* number of Readability objects constructed so far
    setCalls,    \* number of Doc.set_extension calls made so far
    doc,         \* the document in the pipeline (its upstream statistics)
    returned,    \* <<d>>: the document the last __call__ returned; <<>> before
    history,     \* the most recent getter invocations, newest first
    libm         \* the float the platform's pow returns for an inexact result

vars == <<extension, instances, setCalls, doc, returned, history, libm>>

(* Bounds of the model. *)
MaxWords == 2
MaxSent == 3
MaxInstances == 2
MaxHistory == 3

(***************************************************************************)
(* Natural numbers of any size.                                            *)
(***************************************************************************)
LimbBits == 14
Base == 16384

RECURSIVE NFromInt(_)
NFromInt(n) == IF n = 0 THEN <<>> ELSE <<n % Base>> \o NFromInt(n \div Base)

RECURSIVE NNorm(_)
NNorm(a) ==
    IF a = <<>> THEN a
    ELSE IF a[Len(a)] = 0 THEN NNorm(SubSeq(a, 1, Len(a) - 1)) ELSE a

RECURSIVE NAddC(_, _, _)
NAddC(a, b, c) ==
    IF a = <<>> /\ b = <<>> THEN (IF c = 0 THEN <<>> ELSE <<c>>)
    ELSE LET s == (IF a = <<>> THEN 0 ELSE a[1]) + (IF b = <<>> THEN 0 ELSE b[1]) + c
         IN <<s % Base>> \o NAddC(IF a = <<>> THEN a ELSE Tail(a),
                                  IF b = <<>> THEN b ELSE Tail(b), s \div Base)

NAdd(a, b) == NAddC(a, b, 0)

RECURSIVE NSubB(_, _, _)
NSubB(a, b, c) ==
    IF a = <<>> THEN <<>>
    ELSE LET s == a[1] - (IF b = <<>> THEN 0 ELSE b[1]) - c
         IN <<s % Base>> \o NSubB(Tail(a), IF b = <<>> THEN b ELSE Tail(b),
                                  IF s < 0 THEN 1 ELSE 0)

\* a - b for a >= b.
NSub(a, b) == NNorm(NSubB(a, b, 0))

RECURSIVE NCmpFrom(_, _, _)
NCmpFrom(a, b, i) ==
    IF i = 0 THEN 0
    ELSE IF a[i] < b[i] THEN -1
    ELSE IF a[i] > b[i] THEN 1
    ELSE NCmpFrom(a, b, i - 1)

\* -1, 0 or 1 as a < b, a = b or a > b.
NCmp(a, b) ==
    IF Len(a) < Len(b) THEN -1
    ELSE IF Len(a) > Len(b) THEN 1
    ELSE NCmpFrom(a, b, Len(a))

RECURSIVE NMulSmallC(_, _, _)
NMulSmallC(a, k, c) ==
    IF a = <<>> THEN (IF c = 0 THEN <<>> ELSE <<c>>)
    ELSE LET p == a[1] * k + c IN <<p % Base>> \o NMulSmallC(Tail(a), k, p \div Base)

\* a * k for a digit-sized k.
NMulSmall(a, k) == IF k = 0 THEN <<>> ELSE NMulSmallC(a, k, 0)

RECURSIVE NMul(_, _)
NMul(a, b) ==
    IF a = <<>> \/ b = <<>> THEN <<>>
    ELSE NAdd(NMulSmall(a, b[1]),
              LET t == NMul(a, Tail(b)) IN IF t = <<>> THEN t ELSE <<0>> \o t)

Zeros(n) == [i \in 1..n |-> 0]

\* a * 2^bits.
NShl(a, bits) ==
    IF a = <<>> THEN a
    ELSE Zeros(bits \div LimbBits) \o NMulSmall(a, 2 ^ (bits % LimbBits))

RECURSIVE NDivSmallFrom(_, _, _, _)
NDivSmallFrom(a, k, i, r) ==
    IF i = 0 THEN <<>>
    ELSE LET v == r * Base + a[i]
         IN NDivSmallFrom(a, k, i - 1, v % k) \o <<v \div k>>

\* a \div 2^bits.
NShr(a, bits) ==
    LET drop == bits \div LimbBits
        rest == IF drop >= Len(a) THEN <<>> ELSE SubSeq(a, drop + 1, Len(a))
    IN NNorm(NDivSmallFrom(rest, 2 ^ (bits % LimbBits), Len(rest), 0))

RECURSIVE BitLen(_)
BitLen(n) == IF n = 0 THEN 0 ELSE 1 + BitLen(n \div 2)

NBitLen(a) == IF a = <<>> THEN 0 ELSE LimbBits * (Len(a) - 1) + BitLen(a[Len(a)])

NOdd(a) == a # <<>> /\ a[1] % 2 = 1

(***************************************************************************)
(* Float arithmetic: the exact result, then the rounding.                  *)
(***************************************************************************)
Precision == 53

Zero == [s |-> 0, m |-> <<>>, e |-> 0]

\* The float nearest to (-1)^s * n * 2^e, ties to the even mantissa.
Round(s, n, e) ==
    IF n = <<>> THEN Zero
    ELSE LET len == NBitLen(n)
         IN IF len <= Precision
            THEN [s |-> s, m |-> NShl(n, Precision - len), e |-> e - (Precision - len)]
            ELSE LET k == len - Precision
                     q == NShr(n, k)
                     c == NCmp(NSub(n, NShl(q, k)), NShl(<<1>>, k - 1))
                     up == c > 0 \/ (c = 0 /\ NOdd(q))
                     q1 == IF up THEN NAdd(q, <<1>>) ELSE q
                 IN IF NBitLen(q1) > Precision
                    THEN [s |-> s, m |-> NShr(q1, 1), e |-> e + k + 1]
                    ELSE [s |-> s, m |-> q1, e |-> e + k]

\* The integer n as an exact value, not yet rounded.
IntVal(n) ==
    IF n = 0 THEN Zero
    ELSE [s |-> IF n < 0 THEN 1 ELSE 0, m |-> NFromInt(IF n < 0 THEN -n ELSE n), e |-> 0]

\* The exact sum and product of two values.
Sum(a, b) ==
    IF a.m = <<>> THEN b
    ELSE IF b.m = <<>> THEN a
    ELSE LET e == IF a.e < b.e THEN a.e ELSE b.e
             na == NShl(a.m, a.e - e)
             nb == NShl(b.m, b.e - e)
             c == NCmp(na, nb)
         IN IF a.s = b.s THEN [s |-> a.s, m |-> NAdd(na, nb), e |-> e]
            ELSE IF c = 0 THEN Zero
            ELSE IF c > 0 THEN [s |-> a.s, m |-> NSub(na, nb), e |-> e]
            ELSE [s |-> b.s, m |-> NSub(nb, na), e |-> e]

Product(a, b) ==
    IF a.m = <<>> \/ b.m = <<>> THEN Zero
    ELSE [s |-> (a.s + b.s) % 2, m |-> NMul(a.m, b.m), e |-> a.e + b.e]

\* float(n): an int operand of a float operation.
FromInt(n) == LET x == IntVal(n) IN Round(x.s, x.m, x.e)

Neg(a) == IF a.m = <<>> THEN a ELSE [a EXCEPT !.s = 1 - a.s]

\* a + b, a - b and a * b on floats.
Add(a, b) == LET x == Sum(a, b) IN Round(x.s, x.m, x.e)

Sub(a, b) == Add(a, Neg(b))

Mul(a, b) == LET x == Product(a, b) IN Round(x.s, x.m, x.e)

RECURSIVE DigitBits(_, _, _, _)
\* n further binary digits of r / d for r < d: <<acc extended by the digits,
\* the remainder>>.
DigitBits(acc, r, d, n) ==
    IF n = 0 THEN <<acc, r>>
    ELSE LET r2 == NMulSmall(r, 2)
         IN IF NCmp(r2, d) >= 0
            THEN DigitBits(2 * acc + 1, NSub(r2, d), d, n - 1)
            ELSE DigitBits(2 * acc, r2, d, n - 1)

RECURSIVE QuotientLimbs(_, _, _)
\* k further base-2^LimbBits digits of r / d for r < d, and the remainder.
QuotientLimbs(r, d, k) ==
    IF k = 0 THEN <<<<>>, r>>
    ELSE LET top == DigitBits(0, r, d, LimbBits)
             rest == QuotientLimbs(top[2], d, k - 1)
         IN <<rest[1] \o <<top[1]>>, rest[2]>>

\* a / b on floats, b not zero: the quotient of the mantissas to 57 or 58
\* bits, a sticky bit for the remainder, rounded.
Quotient(a, b) ==
    IF a.m = <<>> THEN Zero
    ELSE LET whole == IF NCmp(a.m, b.m) >= 0 THEN 1 ELSE 0
             qr == QuotientLimbs(IF whole = 1 THEN NSub(a.m, b.m) ELSE a.m, b.m, 4)
             q == NNorm(qr[1] \o <<whole>>)
             sticky == IF qr[2] = <<>> THEN 0 ELSE 1
         IN Round((a.s + b.s) % 2, NAddC(NMulSmall(q, 2), <<>>, sticky),
                  a.e - b.e - (4 * LimbBits) - 1)

RECURSIVE RootBits(_, _, _)
\* The integer square root, digit by digit: with res = r * 2^(i+1) for the
\* root r of the digits consumed so far and rem what is left of n, returns
\* <<the largest root whose square is at most n, n minus that square>>.
RootBits(rem, res, i) ==
    IF i < 0 THEN <<res, rem>>
    ELSE LET bit == NShl(<<1>>, 2 * i)
             t == NAdd(res, bit)
         IN IF NCmp(rem, t) >= 0
            THEN RootBits(NSub(rem, t), NAdd(NShr(res, 1), bit), i - 1)
            ELSE RootBits(rem, NShr(res, 1), i - 1)

\* The floats pow can return for a result that no float holds: the nearest
\* float below it or the nearest float above it.
PowRoundings == {"down", "up"}

\* a ** 0.5 for a >= 0, as pow(a, 0.5) of a library that rounds inexact
\* results in direction dir: the integer root r of the mantissa scaled to an
\* even exponent has 55 bits; its leading 53 bits are the float below the
\* root, which is the root itself when nothing is cut off and nothing remains.
Sqrt(a, dir) ==
    IF a.m = <<>> THEN Zero
    ELSE LET t == IF (a.e % 2) = 0 THEN 56 ELSE 57
             rr == RootBits(NShl(a.m, t), <<>>, 54)
             below == NShr(rr[1], 2)
             exact == rr[2] = <<>> /\ NShl(below, 2) = rr[1]
             e == (a.e - t) \div 2 + 2
         IN IF exact \/ dir = "down" THEN Round(0, below, e)
            ELSE Round(0, NAdd(below, <<1>>), e)

\* The float literal written n/d in decimal: the float nearest to it.
Dec(n, d) == Quotient(FromInt(n), FromInt(d))

\* The next float above a positive float below the top of its binade.
NextUp(a) == [a EXCEPT !.m = NAdd(a.m, <<1>>)]

NoException == "none"
ZeroDivisionError == "ZeroDivisionError"

Ok(v) == [exc |-> NoException, val |-> v]
Raise(e) == [exc |-> e, val |-> Zero]

\* Python's a / b: raises ZeroDivisionError when b is zero.
TrueDiv(a, b) ==
    IF b.m = <<>> THEN Raise(ZeroDivisionError)
    ELSE Ok(Quotient(a, b))

(***************************************************************************)
(* Documents.  A document is the bundle of upstream attributes the getter  *)
(* reads: doc._.sentence_length, doc._.syllables, doc._.token_length,      *)
(* doc._._n_sentences, doc._._n_tokens, doc._._n_syllables and             *)
(* doc._._filtered_tokens.  A token is the sequence of its characters.     *)
(***************************************************************************)
Token(n) == [i \in 1..n |-> "x"]

\* The values the upstream means are drawn from; the sentence length means
\* include two adjacent floats, 1.0 and 1.0000000000000002.  The worked
\* scenario below adds a syllable mean of 1.5.
SentenceLengthMeans == {FromInt(0), FromInt(1), NextUp(FromInt(1))}
SyllableMeans == {FromInt(1)}
TokenLengthMeans == {FromInt(5)}
\* A word is <<syllable count, token text, content word?>>: a long, hard
\* word, a hard word of six characters, a long word of two syllables, and a
\* punctuation mark, which the filter drops.
Words ==
    {<<3, Token(7), TRUE>>, <<3, Token(6), TRUE>>, <<2, Token(7), TRUE>>,
     <<1, Token(1), FALSE>>}

RECURSIVE SeqsUpTo(_, _)
SeqsUpTo(S, n) ==
    IF n = 0 THEN {<<>>}
    ELSE LET shorter == SeqsUpTo(S, n - 1)
         IN shorter \cup {Append(s, w) : s \in {t \in shorter : Len(t) = n - 1}, w \in S}

\* The attributes the upstream components attach to a document of tokens
\* ws: _n_tokens the token count, _n_syllables one syllable count per token,
\* _filtered_tokens the content tokens in order.
DocOf(ws, ns, sl, spt, tl) ==
    [sentence_length_mean |-> sl,
     syllables_per_token_mean |-> spt,
     token_length_mean |-> tl,
     _n_sentences |-> ns,
     _n_tokens |-> Len(ws),
     _n_syllables |-> [i \in 1..Len(ws) |-> ws[i][1]],
     _filtered_tokens |-> LET content == SelectSeq(ws, LAMBDA w : w[3])
                          IN [i \in 1..Len(content) |-> content[i][2]]]

\* The worked scenario: 40 tokens in 4 sentences, 4 hard and 6 long words.
ExampleDoc ==
    DocOf([i \in 1..40 |-> <<IF i <= 4 THEN 3 ELSE 2,
                             IF i <= 6 THEN Token(7) ELSE Token(6), TRUE>>],
          4, FromInt(10), Dec(3, 2), FromInt(5))

Docs ==
    {DocOf(ws, ns, sl, spt, tl) :
        ws \in SeqsUpTo(Words, MaxWords), ns \in 0..MaxSent,
        sl \in SentenceLengthMeans, spt \in SyllableMeans, tl \in TokenLengthMeans}
    \cup {ExampleDoc}
    \cup {[ExampleDoc EXCEPT !.sentence_length_mean = sl] : sl \in SentenceLengthMeans}

\* The float literals of the formulas.
F206_835 == Dec(206835, 1000)
F1_015 == Dec(1015, 1000)
F84_6 == Dec(846, 10)
F11_8 == Dec(118, 10)
F0_39 == Dec(39, 100)
F15_59 == Dec(1559, 100)
F1_043 == Dec(1043, 1000)
F3_1291 == Dec(31291, 10000)
F0_4 == Dec(4, 10)
F4_71 == Dec(471, 100)
F0_5 == Dec(5, 10)
F21_43 == Dec(2143, 100)
F0_0588 == Dec(588, 10000)
F0_296 == Dec(296, 1000)
F15_8 == Dec(158, 10)

(***************************************************************************)
(* The formulas, Readability._flesch_reading_ease .. Readability._rix.     *)
(***************************************************************************)
_flesch_reading_ease(d) ==
    Ok(Sub(Sub(F206_835, Mul(F1_015, d.sentence_length_mean)),
           Mul(F84_6, d.syllables_per_token_mean)))

\* _flesch_kincaid_grade with the sentence length term subtracted.
_flesch_kincaid_grade_minus(d) ==
    Ok(Sub(Sub(Mul(F11_8, d.syllables_per_token_mean),
               Mul(F0_39, d.sentence_length_mean)),
           F15_59))

_flesch_kincaid_grade(d) ==
    Ok(Sub(Add(Mul(F0_39, d.sentence_length_mean),
               Mul(F11_8, d.syllables_per_token_mean)),
           F15_59))

\* _smog with the floor its docstring names ("will not work with less than
\* 4") in place of the floor the code tests.
_smog_floor4(d, hard_words, dir) ==
    IF d._n_sentences >= 4
    THEN LET q == TrueDiv(FromInt(hard_words), FromInt(d._n_sentences))
         IN IF q.exc # NoException THEN q
            ELSE Ok(Add(Mul(F1_043, Sqrt(Mul(FromInt(30), q.val), dir)),
                        F3_1291))
    ELSE Ok(FromInt(0))

_smog(d, hard_words, dir) ==
    IF d._n_sentences >= 3
    THEN LET q == TrueDiv(FromInt(hard_words), FromInt(d._n_sentences))
         IN IF q.exc # NoException THEN q
            ELSE Ok(Add(Mul(F1_043, Sqrt(Mul(FromInt(30), q.val), dir)),
                        F3_1291))
    ELSE Ok(FromInt(0))

\* _gunning_fog with the parentheses of its return lost:
\* 0.4 * avg_sent_len + percent_hard_words.
_gunning_fog_unparenthesised(d, hard_words) ==
    LET avg_sent_len == d.sentence_length_mean
        q == TrueDiv(FromInt(hard_words), FromInt(d._n_tokens))
    IN IF q.exc # NoException THEN q
       ELSE LET percent_hard_words == Mul(q.val, FromInt(100))
            IN Ok(Add(Mul(F0_4, avg_sent_len), percent_hard_words))

_gunning_fog(d, hard_words) ==
    LET avg_sent_len == d.sentence_length_mean
        q == TrueDiv(FromInt(hard_words), FromInt(d._n_tokens))
    IN IF q.exc # NoException THEN q
       ELSE LET percent_hard_words == Mul(q.val, FromInt(100))
            IN Ok(Mul(F0_4, Add(avg_sent_len, percent_hard_words)))

_automated_readability_index(d) ==
    Ok(Sub(Add(Mul(F4_71, d.token_length_mean),
               Mul(F0_5, d.sentence_length_mean)),
           F21_43))

_coleman_liau_index(d) ==
    LET l == Mul(d.token_length_mean, FromInt(100))
        q == TrueDiv(FromInt(d._n_sentences), d.sentence_length_mean)
    IN IF q.exc # NoException THEN q
       ELSE LET s == Mul(q.val, FromInt(100))
            IN Ok(Sub(Sub(Mul(F0_0588, l), Mul(F0_296, s)),
                      F15_8))

_lix(d, long_words) ==
    LET q == TrueDiv(FromInt(long_words), FromInt(d._n_tokens))
    IN IF q.exc # NoException THEN q
       ELSE LET percent_long_words == Mul(q.val, FromInt(100))
            IN Ok(Add(d.sentence_length_mean, percent_long_words))

_rix(d, long_words) ==
    TrueDiv(FromInt(long_words), FromInt(d._n_sentences))

(***************************************************************************)
(* Readability.readability: the getter of the "readability" extension.     *)
(***************************************************************************)
RECURSIVE SumSeq(_)
SumSeq(q) == IF q = <<>> THEN 0 ELSE Head(q) + SumSeq(Tail(q))

\* HardWords with sum(...) in place of len(...): the syllables of the hard
\* words are added up.
HardWordsSummed(d) == SumSeq(SelectSeq(d._n_syllables, LAMBDA syllable : syllable >= 3))

\* LongWords with len(t) >= 6 in place of len(t) > 6.
LongWordsFrom6(d) == Len(SelectSeq(d._filtered_tokens, LAMBDA t : Len(t) >= 6))

\* len([syllable for syllable in doc._._n_syllables if syllable >= 3])
HardWords(d) == Len(SelectSeq(d._n_syllables, LAMBDA syllable : syllable >= 3))

\* len([t for t in doc._._filtered_tokens if len(t) > 6])
LongWords(d) == Len(SelectSeq(d._filtered_tokens, LAMBDA t : Len(t) > 6))

\* The keys of the returned dict, in the order the dict display evaluates
\* their values.
MetricKeys ==
    <<"flesch_reading_ease", "flesch_kincaid_grade", "smog", "gunning_fog",
      "automated_readability_index", "coleman_liau_index", "lix", "rix">>

\* The value expression of key k in the returned dict.
Metric(k, d, hard_words, long_words, dir) ==
    CASE k = "flesch_reading_ease" -> _flesch_reading_ease(d)
      [] k = "flesch_kincaid_grade" -> _flesch_kincaid_grade(d)
      [] k = "smog" -> _smog(d, hard_words, dir)
      [] k = "gunning_fog" -> _gunning_fog(d, hard_words)
      [] k = "automated_readability_index" -> _automated_readability_index(d)
      [] k = "coleman_liau_index" -> _coleman_liau_index(d)
      [] k = "lix" -> _lix(d, long_words)
      [] k = "rix" -> _rix(d, long_words)

RECURSIVE Display(_, _, _, _, _, _)
\* The dict display at key i, whose value expression came out as m: an
\* exception abandons the display, a value is entered under the key.
Entry(i, d, hard_words, long_words, dir, acc, m) ==
    IF m.exc # NoException
    THEN [exc |-> m.exc, hard_words |-> hard_words, long_words |-> long_words, val |-> acc]
    ELSE Display(i + 1, d, hard_words, long_words, dir,
                 acc @@ (MetricKeys[i] :> m.val))

\* The dict display from key i on, acc holding the entries evaluated so far:
\* the values are evaluated in key order.
Display(i, d, hard_words, long_words, dir, acc) ==
    IF i > Len(MetricKeys)
    THEN [exc |-> NoException, hard_words |-> hard_words, long_words |-> long_words,
          val |-> acc]
    ELSE Entry(i, d, hard_words, long_words, dir, acc,
               Metric(MetricKeys[i], d, hard_words, long_words, dir))

\* The outcome of readability(doc): exc names the exception that left the
\* call, if any, and val holds the dict entries evaluated before it; val is
\* the returned dict when exc = NoException.  dir is the rounding of the
\* platform's pow.
readability(d, dir) == Display(1, d, HardWords(d), LongWords(d), dir, <<>>)

(***************************************************************************)
(* The component's life cycle.                                             *)
(***************************************************************************)
\* Doc.has_extension("readability")
has_extension == extension.registered

\* Doc.set_extension("readability", getter=self.readability): the getter is
\* the method bound to instance self.
set_extension(self) ==
    /\ extension' = [registered |-> TRUE, getter |-> self]
    /\ setCalls' = setCalls + 1

\* __init__ without the has_extension test: every construction registers.
__init__unguarded ==
    /\ instances < MaxInstances
    /\ instances' = instances + 1
    /\ set_extension(instances + 1)
    /\ UNCHANGED <<doc, returned, history, libm>>

\* Readability.__init__, also reached through the factory
\* create_readability_component: the new instance is number instances + 1.
__init__ ==
    /\ instances < MaxInstances
    /\ instances' = instances + 1
    /\ IF ~has_extension
       THEN set_extension(instances + 1)
       ELSE UNCHANGED <<extension, setCalls>>
    /\ UNCHANGED <<doc, returned, history, libm>>

\* Readability.__call__(doc): returns the document it was given.
__call__(self) ==
    /\ self \in 1..instances
    /\ returned' = <<doc>>
    /\ UNCHANGED <<extension, instances, setCalls, doc, history, libm>>

\* The newest depth invocations, newest first.
Keep(h, depth) == IF Len(h) <= depth THEN h ELSE SubSeq(h, 1, depth)

\* The documents that pass through the pipeline: an empty document, a
\* document whose sentences hold no counted token and a document with one
\* long, hard word.
PipelineDocs ==
    {d \in {DocOf(ws, ns, FromInt(1), FromInt(1), FromInt(4)) :
                ws \in SeqsUpTo({<<3, Token(7), TRUE>>}, 1), ns \in {0, MaxSent}} :
        d._n_sentences = 0 => d._n_tokens = 0}

\* The getter on the documents of the model, under either rounding of pow:
\* Getter[dir][d] is readability(d, dir).
Getter == [dir \in PowRoundings |-> [d \in Docs \cup PipelineDocs |-> readability(d, dir)]]

\* Invoke with a getter that drains the token attributes it reads.
InvokeConsuming(self, depth) ==
    /\ self \in 1..instances
    /\ history' = Keep(<<[self |-> self, doc |-> doc, out |-> Getter[libm][doc]]>> \o history,
                       depth)
    /\ doc' = [doc EXCEPT !._n_tokens = 0, !._n_syllables = <<>>, !._filtered_tokens = <<>>]
    /\ UNCHANGED <<extension, instances, setCalls, returned, libm>>

\* self.readability(doc): through doc._.readability (self is then the
\* instance whose method was registered as the getter) or called directly.
\* The invocation is recorded with the document it read and its outcome.
Invoke(self, depth) ==
    /\ self \in 1..instances
    /\ history' = Keep(<<[self |-> self, doc |-> doc, out |-> Getter[libm][doc]]>> \o history,
                       depth)
    /\ UNCHANGED <<extension, instances, setCalls, doc, returned, libm>>

\* The upstream components hand the next document to the pipeline.
NewDoc(d) ==
    /\ d # doc
    /\ doc' = d
    /\ returned' = <<>>
    /\ UNCHANGED <<extension, instances, setCalls, history, libm>>

Init ==
    /\ extension = [registered |-> FALSE, getter |-> 0]
    /\ instances = 0
    /\ setCalls = 0
    /\ doc \in PipelineDocs
    /\ returned = <<>>
    /\ history = <<>>
    /\ libm \in PowRoundings

Next ==
    \/ __init__
    \/ \E self \in 1..MaxInstances : __call__(self)
    \/ \E self \in 1..MaxInstances : Invoke(self, MaxHistory)
    \/ \E d \in PipelineDocs : NewDoc(d)

Spec == Init /\ [][Next]_vars

(***************************************************************************)
(* The formulas as functions of their inputs: one registered component,    *)
(* any document of Docs, and the sentence length mean varied with          *)
(* everything else held fixed.  The last two invocations are kept.         *)
(***************************************************************************)
VarySentenceLength(sl) ==
    /\ sl # doc.sentence_length_mean
    /\ doc' = [doc EXCEPT !.sentence_length_mean = sl]
    /\ UNCHANGED <<extension, instances, setCalls, returned, history, libm>>

InitF ==
    /\ extension = [registered |-> TRUE, getter |-> 1]
    /\ instances = 1
    /\ setCalls = 1
    /\ doc \in Docs
    /\ returned = <<>>
    /\ history = <<>>
    /\ libm \in PowRoundings

NextF ==
    \/ Invoke(1, 2)
    \/ \E sl \in SentenceLengthMeans : VarySentenceLength(sl)

SpecF == InitF /\ [][NextF]_vars

(***************************************************************************)
(* Properties.                                                             *)
(***************************************************************************)
\* The recorded invocations.
Invocations == {history[i] : i \in DOMAIN history}

EightKeys == {MetricKeys[i] : i \in DOMAIN MetricKeys}

\* The call returned a dict (no exception left it).
Returned(inv) == inv.out.exc = NoException

\* Key k was evaluated by the invocation.
Evaluated(inv, k) == k \in DOMAIN inv.out.val

\* A float is finite when its magnitude is below 2^1024: every value of the
\* model is.
IsFinite(v) == v.m = <<>> \/ NBitLen(v.m) + v.e <= 1024

\* Exact comparisons: the sign of a value, and the order of two values.
Sign(x) == IF x.m = <<>> THEN 0 ELSE IF x.s = 1 THEN -1 ELSE 1
Cmp(a, b) == Sign(Sum(a, Neg(b)))
Less(a, b) == Cmp(a, b) < 0
LessEq(a, b) == Cmp(a, b) <= 0

\* x * k, exactly, for an integer k.
Scale(x, k) == Product(x, IntVal(k))

\* |x| <= k * 2^-30, exactly: x is k times a billionth or less.
Within(x, k) == LessEq([x EXCEPT !.s = 0], [s |-> 0, m |-> NFromInt(k), e |-> -30])

\* The entries of the syllable list that are 3 or more; the filtered tokens
\* of more than 6 characters.
NumHard(d) == Cardinality({i \in DOMAIN d._n_syllables : d._n_syllables[i] >= 3})
NumLong(d) == Cardinality({i \in DOMAIN d._filtered_tokens : Len(d._filtered_tokens[i]) > 6})

\* C1: every invocation, degenerate inputs included, returns without raising
\* a dict with exactly the eight keys; with n_tokens = 0 the gunning_fog and
\* lix entries are non-finite values.
C1_ReturnsEightKeys ==
    \A inv \in Invocations :
        /\ Returned(inv)
        /\ DOMAIN inv.out.val = EightKeys
        /\ inv.doc._n_tokens = 0 =>
              /\ ~IsFinite(inv.out.val.gunning_fog)
              /\ ~IsFinite(inv.out.val.lix)

\* C2: the metrics are evaluated independently: every metric whose own
\* formula meets no zero divisor is in the returned dict under its key with
\* the value of its formula, whatever happens to the other metrics.
C2_MetricsIndependent ==
    \A inv \in Invocations : \A k \in EightKeys :
        LET own == Metric(k, inv.doc, NumHard(inv.doc), NumLong(inv.doc), libm)
        IN own.exc = NoException =>
              /\ Returned(inv)
              /\ Evaluated(inv, k)
              /\ inv.out.val[k] = own.val

RECURSIVE ISqrtIn(_, _, _)
\* The largest r in lo..hi with r*r <= n, given lo*lo <= n < (hi+1)*(hi+1).
ISqrtIn(n, lo, hi) ==
    IF lo = hi THEN lo
    ELSE LET mid == (lo + hi + 1) \div 2
         IN IF mid * mid <= n THEN ISqrtIn(n, mid, hi) ELSE ISqrtIn(n, lo, mid - 1)

\* The literal 3.1291.
SmogFloor == Dec(31291, 10000)

\* C3: smog is evaluated without a division error for every input; it is
\* the sentinel 0.0 when n_sentences < 3, whatever hard_words is; when
\* n_sentences >= 3 it is 1.043 * sqrt(30 * hard_words / n_sentences)
\* + 3.1291, whichever way the platform's pow rounds the root: with k/1000
\* the square root rounded down to thousandths, the score lies between
\* 1.043 * k/1000 + 3.1291 and 1.043 * (k+1)/1000 + 3.1291 (to a millionth);
\* it is at least 3.1291, and exactly 3.1291 for n_sentences = 3,
\* hard_words = 0.
C3_Smog ==
    \A inv \in Invocations :
        LET ns == inv.doc._n_sentences
            hw == NumHard(inv.doc)
        IN /\ Evaluated(inv, "smog")
           /\ ns < 3 => inv.out.val.smog = FromInt(0)
           /\ ns >= 3 =>
                LET smog == inv.out.val.smog
                    k == ISqrtIn((30 * hw * 1000000) \div ns, 0, 46340)
                    millionths == Scale(smog, 1000000)
                IN /\ LessEq(IntVal(1043 * k + 3129100 - 1), millionths)
                   /\ LessEq(millionths, IntVal(1043 * (k + 1) + 3129100 + 1))
                   /\ LessEq(SmogFloor, smog)
           /\ (ns = 3 /\ hw = 0) => inv.out.val.smog = SmogFloor

\* C3 witness: a score above the floor was produced from three or more
\* sentences with hard words.
C3_Witness ==
    \E inv \in Invocations :
        /\ inv.doc._n_sentences >= 3
        /\ NumHard(inv.doc) > 0
        /\ Evaluated(inv, "smog")
        /\ Less(SmogFloor, inv.out.val.smog)

\* C4: registration is idempotent: once any Readability has been
\* constructed the attribute is registered with the first instance's getter,
\* set_extension has been called exactly once, and later constructions
\* change neither.
C4_RegisteredOnce ==
    /\ instances = 0 => (setCalls = 0 /\ ~extension.registered)
    /\ instances >= 1 =>
          (setCalls = 1 /\ extension = [registered |-> TRUE, getter |-> 1])

\* C4 witness: a second Readability has been constructed.
C4_Witness == instances >= 2 /\ setCalls = 1 /\ extension.getter = 1

\* C5: for n_tokens > 0 and n_sentences > 0, gunning_fog is
\* 0.4 * (sentence_length_mean + 100 * hard_words / n_tokens), lix is
\* sentence_length_mean + 100 * long_words / n_tokens and rix is
\* long_words / n_sentences, each to within a billionth of the exact value
\* of the expression; the worked scenario gives gunning_fog = 8.0 and
\* rix = 1.5 exactly.
C5_FogLixRix ==
    \A inv \in Invocations :
        LET d == inv.doc
            sl == d.sentence_length_mean
            nt == d._n_tokens
            ns == d._n_sentences
            hw == NumHard(d)
            lw == NumLong(d)
            v == inv.out.val
        IN (nt > 0 /\ ns > 0) =>
              /\ Evaluated(inv, "gunning_fog")
              /\ Within(Sum(Scale(v.gunning_fog, 5 * nt),
                            Neg(Sum(Scale(sl, 2 * nt), IntVal(200 * hw)))),
                        5 * nt)
              /\ Evaluated(inv, "lix") =>
                    Within(Sum(Scale(v.lix, nt), Neg(Sum(Scale(sl, nt), IntVal(100 * lw)))),
                           nt)
              /\ Evaluated(inv, "rix") =>
                    Within(Sum(Scale(v.rix, ns), IntVal(-lw)), ns)
              /\ sl # Zero => (Evaluated(inv, "lix") /\ Evaluated(inv, "rix"))
              /\ d = ExampleDoc =>
                    /\ Returned(inv)
                    /\ v.gunning_fog = FromInt(8)
                    /\ v.rix = Dec(3, 2)

\* C5 witness: the worked scenario has been scored.
C5_Witness ==
    \E inv \in Invocations :
        /\ inv.doc = ExampleDoc
        /\ Returned(inv)
        /\ inv.out.val.gunning_fog = FromInt(8)
        /\ inv.out.val.lix = FromInt(25)
        /\ inv.out.val.rix = Dec(3, 2)

\* C6: in every invocation hard_words <= n_tokens and long_words <= n_tokens.
C6_CountsWithinTokens ==
    \A inv \in Invocations :
        /\ inv.out.hard_words <= inv.doc._n_tokens
        /\ inv.out.long_words <= inv.doc._n_tokens

\* C6 witness: every token of a scored document was a hard, long word.
C6_Witness ==
    \E inv \in Invocations :
        /\ inv.doc._n_tokens > 0
        /\ inv.out.hard_words = inv.doc._n_tokens
        /\ inv.out.long_words = inv.doc._n_tokens

\* C7: the computation is pure: an invocation leaves the document as it
\* was, the pipeline call returns the document it was given, and any two
\* invocations of a run on equal documents, by any instances and with other
\* documents scored in between, have equal outcomes.
C7_Pure ==
    /\ [](/\ returned # <<>> => returned = <<doc>>
          /\ \A a, b \in Invocations : a.doc = b.doc => a.out = b.out)
    /\ [][/\ history' # history => doc' = doc
          /\ (returned' # returned /\ returned' # <<>>) => doc' = doc]_vars

\* C7 witness: the same document was scored twice, by different instances,
\* with another document scored in between, and returned by the pipeline.
C7_Witness ==
    /\ Len(history) = 3
    /\ history[1].doc = history[3].doc
    /\ history[2].doc # history[1].doc
    /\ history[1].self # history[3].self
    /\ Returned(history[1])
    /\ returned = <<doc>>

\* Documents a and b differ at most in sentence_length_mean.
SameButSentenceLength(a, b) ==
    [a EXCEPT !.sentence_length_mean = b.sentence_length_mean] = b


\* Invocations a and b scored one document at two sentence length means,
\* a's the smaller.
SentenceLengthRaised(a, b) ==
    /\ SameButSentenceLength(a.doc, b.doc)
    /\ Less(a.doc.sentence_length_mean, b.doc.sentence_length_mean)

\* C8: with everything else fixed, a larger sentence_length_mean gives a
\* strictly smaller flesch_reading_ease and a strictly larger
\* flesch_kincaid_grade.
C8_FleschMonotone ==
    \A a, b \in Invocations :
        SentenceLengthRaised(a, b) =>
            /\ Evaluated(a, "flesch_kincaid_grade") /\ Evaluated(b, "flesch_kincaid_grade")
            /\ Less(b.out.val.flesch_reading_ease, a.out.val.flesch_reading_ease)
            /\ Less(a.out.val.flesch_kincaid_grade, b.out.val.flesch_kincaid_grade)

\* A mean in the range of real documents, 0 to 1000.
InRange(x) == LessEq(Zero, x) /\ LessEq(x, IntVal(1000))

\* C8, amended: with everything else fixed and the means between 0 and
\* 1000, a larger sentence_length_mean gives a flesch_reading_ease that is
\* smaller or equal and a flesch_kincaid_grade that is larger or equal; both
\* change strictly when the sentence length means differ by 1 or more.
C8_FleschMonotoneRounded ==
    \A a, b \in Invocations :
        (/\ SentenceLengthRaised(a, b)
         /\ InRange(a.doc.sentence_length_mean)
         /\ InRange(b.doc.sentence_length_mean)
         /\ InRange(a.doc.syllables_per_token_mean)) =>
            /\ Evaluated(a, "flesch_kincaid_grade") /\ Evaluated(b, "flesch_kincaid_grade")
            /\ LessEq(b.out.val.flesch_reading_ease, a.out.val.flesch_reading_ease)
            /\ LessEq(a.out.val.flesch_kincaid_grade, b.out.val.flesch_kincaid_grade)
            /\ LessEq(Sum(a.doc.sentence_length_mean, IntVal(1)), b.doc.sentence_length_mean) =>
                  /\ Less(b.out.val.flesch_reading_ease, a.out.val.flesch_reading_ease)
                  /\ Less(a.out.val.flesch_kincaid_grade, b.out.val.flesch_kincaid_grade)

\* C8 witness: one document was scored at two adjacent sentence length
\* means, 1.0 and 1.0000000000000002, and both scores came out the same.
C8_Witness ==
    \E a, b \in Invocations :
        /\ SentenceLengthRaised(a, b)
        /\ InRange(b.doc.sentence_length_mean)
        /\ b.out.val.flesch_reading_ease = a.out.val.flesch_reading_ease
        /\ b.out.val.flesch_kincaid_grade = a.out.val.flesch_kincaid_grade

\* C9: when sentence_length_mean = n_tokens / n_sentences, the S term of
\* coleman_liau_index is the number of sentences per 100 words,
\* 100 * n_sentences / n_tokens, and the score is
\* 0.0588 * (100 * token_length_mean) - 0.296 * S - 15.8, to within a
\* billionth of the exact value of the expression.
C9_ColemanLiauSentencesPer100Words ==
    \A inv \in Invocations :
        LET d == inv.doc
            nt == d._n_tokens
            ns == d._n_sentences
        IN (/\ ns > 0 /\ nt > 0
            /\ Cmp(Scale(d.sentence_length_mean, ns), IntVal(nt)) = 0
            /\ Evaluated(inv, "coleman_liau_index")) =>
               Within(Sum(Scale(inv.out.val.coleman_liau_index, 10000 * nt),
                          Neg(Sum(Scale(d.token_length_mean, 58800 * nt),
                                  IntVal(- 296000 * ns - 158000 * nt)))),
                      10000 * nt)

\* C10: hard_words is the number of entries of the syllable list that are
\* >= 3 and long_words the number of filtered tokens longer than 6
\* characters, in every invocation; both are 0 for empty lists.
C10_Counts ==
    \A inv \in Invocations :
        /\ inv.out.hard_words = NumHard(inv.doc)
        /\ inv.out.long_words = NumLong(inv.doc)
        /\ inv.doc._n_syllables = <<>> => inv.out.hard_words = 0
        /\ inv.doc._filtered_tokens = <<>> => inv.out.long_words = 0

\* C10 witness: a document with a 3-syllable and a 2-syllable token, a
\* 7-character and a 6-character token was scored: one hard, one long word.
C10_Witness ==
    \E inv \in Invocations :
        /\ \E i, j \in DOMAIN inv.doc._n_syllables :
              inv.doc._n_syllables[i] = 3 /\ inv.doc._n_syllables[j] = 2
        /\ \E i, j \in DOMAIN inv.doc._filtered_tokens :
              Len(inv.doc._filtered_tokens[i]) = 7 /\ Len(inv.doc._filtered_tokens[j]) = 6
        /\ inv.out.hard_words = 1
        /\ inv.out.long_words = 1

====
